---- MODULE Spec2Model ----
(***************************************************************************)
(* git-ripper: the crawl engine of src/git_ripper/git_ripper.py            *)
(* (GitRipper.run, GitRipper.worker, GitRipper.parse_file and their        *)
(* helpers) and the index parser of src/git_ripper/utils/git.py.           *)
(*                                                                         *)
(* Text (URLs, local paths, file contents read with read_text, inflated    *)
(* payloads) is a TLA+ string; Ch(s, i) is its i-th character.  The bytes  *)
(* of an index file are a sequence of integers 0..255.                     *)
(***************************************************************************)
EXTENDS Integers, Sequences, FiniteSets, TLC

\* ------------------------------------------------------------------------
\* Bounds of the model (not program constants).
\* ------------------------------------------------------------------------

\* run() is started with num_workers drawn from 0..MaxW.
MaxW == 2

\* The program is run up to MaxRuns times on the same output directory.
MaxRuns == 2

\* the entries of an index file, the bytes of a path, and the bytes cut off
\* an index file, when GitIndex is called by itself
MaxEntries == 2

MaxPathLen == 8

MaxCut == 12

\* ------------------------------------------------------------------------
\* Program constants.
\* ------------------------------------------------------------------------

\* The {40} of HASH_RE and PACK_HASH_RE: the hex digits of an object id.
HashLen == 40

\* hash[:2] / hash[2:] in get_object_path, and the {2} of OBJECT_FILENAME_RE.
FanoutLen == 2

COMMON_BRANCH_NAMES == <<"master", "main", "develop">>

\* output_directory: str = OUTPUT_DIRECTORY (defaults.py: "output").
OUTPUT_DIRECTORY == "output"

\* ------------------------------------------------------------------------
\* Python str / re primitives.
\* ------------------------------------------------------------------------

Ch(s, i) == SubSeq(s, i, i)

Digits == {"0", "1", "2", "3", "4", "5", "6", "7", "8", "9"}

\* [\da-f]
HexChars == Digits \cup {"a", "b", "c", "d", "e", "f"}

\* \w (the ASCII part)
WordChars ==
    Digits \cup
    {"a", "b", "c", "d", "e", "f", "g", "h", "i", "j", "k", "l", "m", "n",
     "o", "p", "q", "r", "s", "t", "u", "v", "w", "x", "y", "z", "_",
     "A", "B", "C", "D", "E", "F", "G", "H", "I", "J", "K", "L", "M", "N",
     "O", "P", "Q", "R", "S", "T", "U", "V", "W", "X", "Y", "Z"}

\* \s (so \S is its complement)
SpaceChars == {" ", "\t", "\n", "\r", "\f"}

\* s[i-1:].startswith(p), 1-based
StartsWithAt(s, i, p) ==
    /\ i >= 1
    /\ i + Len(p) - 1 <= Len(s)
    /\ SubSeq(s, i, i + Len(p) - 1) = p

startswith(s, p) == StartsWithAt(s, 1, p)

endswith(s, p) == StartsWithAt(s, Len(s) - Len(p) + 1, p)

\* \b at the gap before position i (between s[i-1] and s[i])
WordBoundary(s, i) ==
    LET before == i > 1 /\ i - 1 <= Len(s) /\ Ch(s, i - 1) \in WordChars
        after  == i >= 1 /\ i <= Len(s) /\ Ch(s, i) \in WordChars
    IN  before # after

\* the least element of a non-empty set of integers
Least(S) == CHOOSE m \in S : \A k \in S : m <= k

\* the least element of S, 0 if S is empty
LeastOr0(S) == IF S = {} THEN 0 ELSE Least(S)

\* s.find(sep, i-1) + 1: the least j >= i where sep starts, 0 if none
find(s, sep, i) ==
    LeastOr0({j \in i..(Len(s) - Len(sep) + 1) : StartsWithAt(s, j, sep)})

\* s.split(sep); j is where the first sep starts (0: none)
RECURSIVE split(_, _)
split_at(s, sep, j) ==
    IF j = 0 THEN <<s>>
    ELSE <<SubSeq(s, 1, j - 1)>> \o split(SubSeq(s, j + Len(sep), Len(s)), sep)

split(s, sep) == split_at(s, sep, find(s, sep, 1))

\* sep.join(parts)
RECURSIVE join(_, _)
join(sep, parts) ==
    IF parts = <<>> THEN ""
    ELSE IF Len(parts) = 1 THEN parts[1]
    ELSE parts[1] \o sep \o join(sep, Tail(parts))

\* the end (exclusive) of the longest run of characters NOT of class cs from i
RunEndNot(s, i, cs) ==
    Least({j \in i..(Len(s) + 1) : j > Len(s) \/ Ch(s, j) \in cs})

AllIn(s, i, n, cs) ==
    /\ i + n - 1 <= Len(s)
    /\ \A k \in i..(i + n - 1) : Ch(s, k) \in cs

\* ------------------------------------------------------------------------
\* The regular expressions of git_ripper.py, each as the end (exclusive) of
\* its match starting at position i, or 0 when it does not match there.
\* ------------------------------------------------------------------------

\* HASH_RE = \b[\da-f]{40}\b
HASH_RE_match(s, i) ==
    IF /\ WordBoundary(s, i)
       /\ AllIn(s, i, HashLen, HexChars)
       /\ WordBoundary(s, i + HashLen)
    THEN i + HashLen ELSE 0

\* e if the run [i, e) is not empty, else 0 (no match)
NonEmptyRun(i, e) == IF e > i THEN e ELSE 0

\* REF_RE = \bref/\S+
REF_RE_match(s, i) ==
    IF WordBoundary(s, i) /\ StartsWithAt(s, i, "ref/")
    THEN NonEmptyRun(i + 4, RunEndNot(s, i + 4, SpaceChars)) ELSE 0

\* a | b: the first alternative that matches
Alternative(a, b) == IF a # 0 THEN a ELSE b

\* HASH_OR_REF_RE = HASH_RE | REF_RE
HASH_OR_REF_RE_match(s, i) ==
    Alternative(HASH_RE_match(s, i), REF_RE_match(s, i))

\* PACK_HASH_RE = \bpack\-[\da-f]{40}\b
PACK_HASH_RE_match(s, i) ==
    IF /\ WordBoundary(s, i)
       /\ StartsWithAt(s, i, "pack-")
       /\ AllIn(s, i + 5, HashLen, HexChars)
       /\ WordBoundary(s, i + 5 + HashLen)
    THEN i + 5 + HashLen ELSE 0

\* the quote that ends the group [^"]+ begun at i, when "] follows it
BranchClose(s, i, e) ==
    IF e > i /\ StartsWithAt(s, e, "\"]") THEN e + 2 ELSE 0

\* BRANCH_RE = \[branch "([^"]+)"\]   (the end of the whole match)
BRANCH_RE_match(s, i) ==
    IF StartsWithAt(s, i, "[branch \"")
    THEN BranchClose(s, i + 9, RunEndNot(s, i + 9, {"\""})) ELSE 0

\* the match of the pattern named re at position i
RE_match(re, s, i) ==
    CASE re = "HASH_RE" -> HASH_RE_match(s, i)
      [] re = "HASH_OR_REF_RE" -> HASH_OR_REF_RE_match(s, i)
      [] re = "PACK_HASH_RE" -> PACK_HASH_RE_match(s, i)

\* re.findall for a pattern without groups: the non-overlapping matches,
\* left to right (every match here is non-empty); j is where the next
\* match starts, e where it ends
RECURSIVE findall_from(_, _, _)
findall_next(re, s, j, e) ==
    IF j = 0 THEN <<>>
    ELSE <<SubSeq(s, j, e - 1)>> \o findall_from(re, s, e)

findall_at(re, s, j) ==
    findall_next(re, s, j, IF j = 0 THEN 0 ELSE RE_match(re, s, j))

findall_from(re, s, i) ==
    findall_at(re, s, LeastOr0({j \in i..Len(s) : RE_match(re, s, j) # 0}))

HASH_RE_findall(s) == findall_from("HASH_RE", s, 1)

HASH_OR_REF_RE_findall(s) == findall_from("HASH_OR_REF_RE", s, 1)

PACK_HASH_RE_findall(s) == findall_from("PACK_HASH_RE", s, 1)

\* BRANCH_RE.findall: one group, so the list of the group's texts
RECURSIVE BRANCH_RE_from(_, _)
BRANCH_RE_next(s, j, e) ==
    IF j = 0 THEN <<>>
    ELSE <<SubSeq(s, j + 9, e - 3)>> \o BRANCH_RE_from(s, e)

BRANCH_RE_at(s, j) ==
    BRANCH_RE_next(s, j, IF j = 0 THEN 0 ELSE BRANCH_RE_match(s, j))

BRANCH_RE_from(s, i) ==
    BRANCH_RE_at(s, LeastOr0({j \in i..Len(s) : BRANCH_RE_match(s, j) # 0}))

BRANCH_RE_findall(s) == BRANCH_RE_from(s, 1)

\* OBJECT_FILENAME_RE.fullmatch: objects/[\da-f]{2}/[\da-f]{38}
OBJECT_FILENAME_RE_fullmatch(s) ==
    /\ Len(s) = 8 + FanoutLen + 1 + (HashLen - FanoutLen)
    /\ startswith(s, "objects/")
    /\ AllIn(s, 9, FanoutLen, HexChars)
    /\ Ch(s, 9 + FanoutLen) = "/"
    /\ AllIn(s, 10 + FanoutLen, HashLen - FanoutLen, HexChars)

\* ------------------------------------------------------------------------
\* URL and path helpers.
\* ------------------------------------------------------------------------

\* get_object_path: f'objects/{hash[:2]}/{hash[2:]}'
get_object_path(hash) ==
    "objects/"
    \o SubSeq(hash, 1, IF Len(hash) < FanoutLen THEN Len(hash) ELSE FanoutLen)
    \o "/"
    \o SubSeq(hash, FanoutLen + 1, Len(hash))

\* a generator that leaves the reflogs out
gen_branch_refs_no_logs(branch) ==
    << "refs/heads/" \o branch, "refs/remotes/origin/" \o branch >>

\* gen_branch_refs: for prefix in '', 'logs/': heads, then remotes/origin
gen_branch_refs(branch) ==
    << "refs/heads/" \o branch,
       "refs/remotes/origin/" \o branch,
       "logs/refs/heads/" \o branch,
       "logs/refs/remotes/origin/" \o branch >>

RECURSIVE Flatten(_)
Flatten(ss) == IF ss = <<>> THEN <<>> ELSE Head(ss) \o Flatten(Tail(ss))

\* common_files: the nine fixed names, then the refs of COMMON_BRANCH_NAMES
common_files ==
    << "COMMIT_EDITMSG", "HEAD", "config", "description", "index",
       "info/exclude", "logs/HEAD", "objects/info/packs", "packed-refs" >>
    \o Flatten([i \in DOMAIN COMMON_BRANCH_NAMES |->
                    gen_branch_refs(COMMON_BRANCH_NAMES[i])])

\* a normalizer that appends the suffix to whatever it is given
with_git_suffix_appended(u) == u \o "/.git/"

\* normalize_git_url.  re.I is passed where re.sub takes count, so the first
\* pattern is matched case-sensitively; it matches (the empty string) at the
\* start only.  The second pattern's leftmost match is the longest of the
\* suffixes "/.git/", "/.git", "/", "".
with_git_suffix(u) ==
    SubSeq(u, 1, Len(u) - (IF endswith(u, "/.git/") THEN 6
                           ELSE IF endswith(u, "/.git") THEN 5
                           ELSE IF endswith(u, "/") THEN 1
                           ELSE 0))
    \o "/.git/"

normalize_git_url(url) ==
    with_git_suffix(IF startswith(url, "http://") \/ startswith(url, "https://")
                    THEN url ELSE "http://" \o url)

\* get_git_baseurl: re.sub(r'(?<=\.git/).*', '', url) cuts the URL right
\* after the first ".git/"
cut_after(url, j) == IF j = 0 THEN url ELSE SubSeq(url, 1, j + 4)

get_git_baseurl(url) == cut_after(url, find(url, ".git/", 1))

\* the interior empty segments dropped: segments[1:-1] = filter(None, ...)
RECURSIVE FilterInterior(_, _)
FilterInterior(segs, i) ==
    IF i > Len(segs) THEN <<>>
    ELSE (IF 1 < i /\ i < Len(segs) /\ segs[i] = "" THEN <<>> ELSE <<segs[i]>>)
         \o FilterInterior(segs, i + 1)

\* the dot segments resolved, left to right, onto the list acc
RECURSIVE ResolveDots(_, _)
ResolveDots(segs, acc) ==
    IF segs = <<>> THEN acc
    ELSE LET seg == Head(segs)
         IN  IF seg = ".."
             THEN ResolveDots(Tail(segs),
                              IF acc = <<>> THEN acc
                              ELSE SubSeq(acc, 1, Len(acc) - 1))
             ELSE IF seg = "." THEN ResolveDots(Tail(segs), acc)
             ELSE ResolveDots(Tail(segs), Append(acc, seg))

\* the first position of a character of cs in s, Len(s) + 1 if none
FirstOf(s, cs) == RunEndNot(s, 1, cs)

\* urlunsplit: the path of a URL with an authority starts with "/"
urlunsplit(origin, path, rest) ==
    origin \o (IF startswith(path, "/") THEN path ELSE "/" \o path) \o rest

\* the dot segments resolved; a last segment "." or ".." leaves a directory
resolve_segments(segments, resolved) ==
    join("/", IF segments[Len(segments)] \in {".", ".."}
              THEN Append(resolved, "") ELSE resolved)

\* base_parts (without its last item unless that is empty) + the
\* reference's segments, the interior empty ones dropped
merge_segments(bsplit, psplit) ==
    FilterInterior((IF bsplit[Len(bsplit)] # ""
                    THEN SubSeq(bsplit, 1, Len(bsplit) - 1) ELSE bsplit)
                   \o psplit, 1)

resolve_path(segments) ==
    resolve_segments(segments, ResolveDots(segments, <<>>))

\* p: where the base's path starts (0: it has none); q: where the
\* reference's query or fragment starts
urljoin_at(base, url, p, q) ==
    IF q = 1 THEN base \o url
    ELSE urlunsplit(
             IF p = 0 THEN base ELSE SubSeq(base, 1, p - 1),
             resolve_path(
                 merge_segments(
                     split(IF p = 0 THEN "" ELSE SubSeq(base, p, Len(base)), "/"),
                     split(SubSeq(url, 1, q - 1), "/"))),
             SubSeq(url, q, Len(url)))

\* urllib.parse.urljoin(base, url) for an http(s) base without query or
\* fragment and a reference without scheme or authority and not starting
\* with "/" (every reference the program builds starts with a fixed
\* word: refs/, logs/, objects/, ref/ or a seed name)
urljoin(base, url) ==
    urljoin_at(base, url, find(base, "/", find(base, "://", 1) + 3),
               FirstOf(url, {"?", "#"}))

HexValue(c) ==
    CASE c \in {"a", "A"} -> 10 [] c \in {"b", "B"} -> 11
      [] c \in {"c", "C"} -> 12 [] c \in {"d", "D"} -> 13
      [] c \in {"e", "E"} -> 14 [] c \in {"f", "F"} -> 15
      [] c = "0" -> 0 [] c = "1" -> 1 [] c = "2" -> 2 [] c = "3" -> 3
      [] c = "4" -> 4 [] c = "5" -> 5 [] c = "6" -> 6 [] c = "7" -> 7
      [] c = "8" -> 8 [] c = "9" -> 9

\* the printable ASCII characters a %XX escape of a URL decodes to here
AsciiChar(n) ==
    CASE n = 32 -> " " [] n = 35 -> "#" [] n = 37 -> "%" [] n = 46 -> "."
      [] n = 47 -> "/" [] n = 63 -> "?" [] OTHER -> "?"

\* urllib.parse.unquote: every %XX with two hex digits is decoded; j is
\* where the first "%" is (0: none)
RECURSIVE unquote(_)
unquote_at(s, j) ==
    IF j = 0 THEN s
    ELSE IF /\ j + 2 <= Len(s)
            /\ Ch(s, j + 1) \in HexChars \cup {"A", "B", "C", "D", "E", "F"}
            /\ Ch(s, j + 2) \in HexChars \cup {"A", "B", "C", "D", "E", "F"}
         THEN SubSeq(s, 1, j - 1)
              \o AsciiChar(16 * HexValue(Ch(s, j + 1)) + HexValue(Ch(s, j + 2)))
              \o unquote(SubSeq(s, j + 3, Len(s)))
         ELSE SubSeq(s, 1, j) \o unquote(SubSeq(s, j + 1, Len(s)))

unquote(s) == unquote_at(s, find(s, "%", 1))

\* PurePosixPath: repeated slashes and "." components dropped, no trailing
\* slash; ".." components are kept
RECURSIVE DropEmptyAndDot(_)
DropEmptyAndDot(segs) ==
    IF segs = <<>> THEN <<>>
    ELSE (IF Head(segs) \in {"", "."} THEN <<>> ELSE <<Head(segs)>>)
         \o DropEmptyAndDot(Tail(segs))

PurePath(s) ==
    (IF startswith(s, "/") THEN "/" ELSE "")
    \o join("/", DropEmptyAndDot(split(s, "/")))

\* Path.joinpath(rel): an absolute rel replaces the directory
joinpath(dir, rel) ==
    IF startswith(rel, "/") THEN PurePath(rel) ELSE PurePath(dir \o "/" \o rel)

\* file_url.split('://')[1], unquoted and joined; "" stands for the
\* IndexError of a URL without "://"
path_of_parts(parts) ==
    IF Len(parts) < 2 THEN "" ELSE joinpath(OUTPUT_DIRECTORY, unquote(parts[2]))

\* worker, lines 106-108: output_directory.joinpath(unquote(
\* file_url.split('://')[1]))
local_path(file_url) == path_of_parts(split(file_url, "://"))

\* ------------------------------------------------------------------------
\* File contents.  A content is the bytes of a file, kept in the form its
\* reader takes it: text (read_text), the zlib stream of a text
\* (zlib.decompress), or raw bytes (GitIndex).
\* ------------------------------------------------------------------------

Text(t) == [kind |-> "text", text |-> t, bytes |-> <<>>]

\* zlib.compress(t)
Zlib(t) == [kind |-> "zlib", text |-> t, bytes |-> <<>>]

Bytes(b) == [kind |-> "bytes", text |-> "", bytes |-> b]

\* Path.read_text(): a zlib stream or an index is not valid UTF-8
read_text(c) ==
    IF c.kind = "text" THEN [ok |-> TRUE, text |-> c.text]
    ELSE [ok |-> FALSE, text |-> ""]

\* zlib.decompress(contents): zlib.error unless the bytes are a zlib stream
zlib_decompress(c) ==
    IF c.kind = "zlib" THEN [ok |-> TRUE, text |-> c.text]
    ELSE [ok |-> FALSE, text |-> ""]

\* ------------------------------------------------------------------------
\* utils/git.py: GitIndex.
\* ------------------------------------------------------------------------

\* one "I" of a struct format "!...": 4 bytes, big-endian, from position i
BE32(b, i) ==
    ((b[i] * 256 + b[i + 1]) * 256 + b[i + 2]) * 256 + b[i + 3]

\* the "H" of "!10I20sH"
BE16(b, i) == b[i] * 256 + b[i + 1]

\* struct.calcsize("!4s2I")
HeaderSize == 12

\* struct.calcsize("!10I20sH")
EntryFixedSize == 62

\* b"DIRC"
DIRC == <<68, 73, 82, 67>>

\* parse_header: read_struct("!4s2I"), then the two raise_if_not
parse_header(buf) ==
    IF Len(buf) < HeaderSize THEN [error |-> "struct.error"]
    ELSE LET header == [signature |-> SubSeq(buf, 1, 4),
                        version |-> BE32(buf, 5),
                        num_entries |-> BE32(buf, 9)]
         IN  IF header.signature # DIRC THEN [error |-> "InvalidSignature"]
             ELSE IF header.version \notin {2, 3, 4}
             THEN [error |-> "InvalidVersion"]
             ELSE [error |-> "", header |-> header]

\* the position of the first NUL at or after pos, Len(buf) + 1 at end of file
PathEnd(buf, pos) ==
    Least({j \in pos..(Len(buf) + 1) : j > Len(buf) \/ buf[j] = 0})

\* Entry(*unpacked, file_path=buf.getvalue()): the entry at pos whose
\* path ends before e
entry_at(buf, pos, e) ==
    [ctime_seconds |-> BE32(buf, pos),
     ctime_nanoseconds |-> BE32(buf, pos + 4),
     mtime_seconds |-> BE32(buf, pos + 8),
     mtime_nanoseconds |-> BE32(buf, pos + 12),
     dev |-> BE32(buf, pos + 16),
     ino |-> BE32(buf, pos + 20),
     mode |-> BE32(buf, pos + 24),
     uid |-> BE32(buf, pos + 28),
     gid |-> BE32(buf, pos + 32),
     file_size |-> BE32(buf, pos + 36),
     sha1 |-> SubSeq(buf, pos + 40, pos + 59),
     flags |-> BE16(buf, pos + 60),
     file_path |-> SubSeq(buf, pos + EntryFixedSize, e - 1)]

\* a parser that reads the next entry right after the path's NUL
after_padding_none(pos, told) == told + 1

\* entrysize = start - fp.tell(); fp.seek(entrysize % 8, 1): where the
\* next entry is read, told being fp.tell() after the path and its NUL
after_padding(pos, told) ==
    told + ((8 - ((told - (pos - 1)) % 8)) % 8) + 1

\* parse_entries: pos is fp.tell() + 1, n the entries still to read
RECURSIVE parse_entries(_, _, _, _)
parse_entry(buf, pos, n, entries, e) ==
    \* c is b"" at the end of the file: the loop ends without a NUL
    parse_entries(buf, after_padding(pos, IF e > Len(buf) THEN Len(buf) ELSE e),
                  n - 1, Append(entries, entry_at(buf, pos, e)))

parse_entries(buf, pos, n, entries) ==
    IF n = 0 THEN [error |-> "", entries |-> entries]
    ELSE IF pos + EntryFixedSize - 1 > Len(buf) THEN [error |-> "struct.error"]
    ELSE parse_entry(buf, pos, n, entries, PathEnd(buf, pos + EntryFixedSize))

\* parse(): parse_entries after a header that raised nothing
parse_after_header(buf, h) ==
    IF h.error # "" THEN h
    ELSE parse_entries(buf, HeaderSize + 1, h.header.num_entries, <<>>)

\* GitIndex(fp): __post_init__ = parse
GitIndex(c) ==
    IF c.kind # "bytes" THEN [error |-> "InvalidSignature"]
    ELSE parse_after_header(c.bytes, parse_header(c.bytes))

HexDigit(n) ==
    CASE n = 10 -> "a" [] n = 11 -> "b" [] n = 12 -> "c" [] n = 13 -> "d"
      [] n = 14 -> "e" [] n = 15 -> "f" [] n = 0 -> "0" [] n = 1 -> "1"
      [] n = 2 -> "2" [] n = 3 -> "3" [] n = 4 -> "4" [] n = 5 -> "5"
      [] n = 6 -> "6" [] n = 7 -> "7" [] n = 8 -> "8" [] n = 9 -> "9"

\* bytes.hex()
RECURSIVE hex(_)
hex(b) ==
    IF b = <<>> THEN ""
    ELSE HexDigit(Head(b) \div 16) \o HexDigit(Head(b) % 16) \o hex(Tail(b))

\* ------------------------------------------------------------------------
\* The targets served: what a run is given and what the servers answer.
\* ------------------------------------------------------------------------

Zeros38 == "00000000000000000000000000000000000000"

\* object ids: a commit, a tree, a blob, an object served corrupt, a pack
HCommit == "c1" \o Zeros38
HTree == "d2" \o Zeros38
HBlob == "b3" \o Zeros38
HCorrupt == "e4" \o Zeros38
HNull == "00" \o Zeros38
HPack == "aa" \o Zeros38

\* bytes.fromhex(h)
RECURSIVE fromhex(_)
fromhex(h) ==
    IF Len(h) < 2 THEN <<>>
    ELSE <<16 * HexValue(Ch(h, 1)) + HexValue(Ch(h, 2))>>
         \o fromhex(SubSeq(h, 3, Len(h)))

PackBE32(n) ==
    <<(n \div 16777216) % 256, (n \div 65536) % 256, (n \div 256) % 256, n % 256>>

NulBytes(n) == [i \in 1..n |-> 0]

\* one index entry as git writes it: ten 4-byte fields, the object id, the
\* flags (the path length), the path, and 1 to 8 NUL bytes up to a
\* multiple of 8
IndexEntryBytes(e) ==
    LET body == NulBytes(40) \o fromhex(e.id)
                \o <<Len(e.path) \div 256, Len(e.path) % 256>> \o e.path
    IN  body \o NulBytes(8 - (Len(body) % 8))

\* a git index file: the signature, the version, the entry count, the entries
IndexBuffer(signature, version, entries) ==
    signature \o PackBE32(version) \o PackBE32(Len(entries))
    \o Flatten([i \in DOMAIN entries |-> IndexEntryBytes(entries[i])])

\* a git config file with one [branch "<name>"] section per name
RECURSIVE BranchSections(_)
BranchSections(names) ==
    IF names = <<>> THEN ""
    ELSE "[branch \"" \o Head(names) \o "\"]\n\tremote = origin\n\tmerge = refs/heads/"
         \o Head(names) \o "\n" \o BranchSections(Tail(names))

ConfigText(names) ==
    "[core]\n\tbare = false\n[remote \"origin\"]\n\turl = x\n"
    \o BranchSections(names)

\* a response: status "ok" (2xx with a body), "html" (2xx, text/html),
\* "err" (raise_for_status fails) or "flaky" (the body, or a transport
\* error or timeout, either one at each attempt)
Resp(status, body) == [status |-> status, body |-> body]

NotFound == Resp("err", Text(""))

\* the empty dict / the empty directory tree
Empty == [x \in {} |-> 0]

\* the function f extended (overridden) by g
Override(f, g) ==
    [x \in DOMAIN f \cup DOMAIN g |-> IF x \in DOMAIN g THEN g[x] ELSE f[x]]

Range(f) == {f[x] : x \in DOMAIN f}

\* run()'s seed, lines 61-66: for file in common_files, for url in urls
Seeds(urls) ==
    LET normalized_urls == [i \in DOMAIN urls |-> normalize_git_url(urls[i])]
    IN  Flatten([f \in DOMAIN common_files |->
                    [i \in DOMAIN normalized_urls |->
                        urljoin(normalized_urls[i], common_files[f])]])

BaseA == "http://a/.git/"

\* the branch names of target a's config, and the entries of its index
BranchesA == <<"dev", "fix/x-1">>

EntriesA == << [id |-> HBlob, path |-> <<102>>],
               [id |-> HTree, path |-> <<100, 47, 103, 46, 99>>] >>

HeadTextA == "ref: refs/heads/dev\n"

\* target a: a repository with a branch dev, a commit, a tree pointing
\* back at the commit, a blob, one object served corrupt, a soft-404
\* description and two files that sometimes time out
ServerA ==
    (BaseA \o "HEAD" :> Resp("ok", Text(HeadTextA)))
    @@ (BaseA \o "config" :> Resp("ok", Text(ConfigText(BranchesA))))
    @@ (BaseA \o "description" :> Resp("html", Text("<html>not found</html>")))
    @@ (BaseA \o "index" :>
            Resp("ok", Bytes(IndexBuffer(DIRC, 2, EntriesA))))
    @@ (BaseA \o "COMMIT_EDITMSG" :> Resp("flaky", Text("initial\n")))
    @@ (BaseA \o "logs/HEAD" :>
            Resp("flaky", Text(HNull \o " " \o HCommit
                               \o " A <a@b.c> 0 +0000\tcommit (initial): x\n")))
    @@ (BaseA \o "objects/info/packs" :>
            Resp("ok", Text("P pack-" \o HPack \o ".pack\n\n")))
    @@ (BaseA \o "packed-refs" :>
            Resp("ok", Text("# pack-refs with: peeled fully-peeled sorted\n"
                            \o HCommit \o " refs/heads/dev\n")))
    @@ (BaseA \o "refs/heads/dev" :> Resp("ok", Text(HCommit \o "\n")))
    @@ (BaseA \o get_object_path(HCommit) :>
            Resp("ok", Zlib("commit 99 tree " \o HTree \o "\nparent "
                            \o HCorrupt \o "\n\ninitial\n")))
    @@ (BaseA \o get_object_path(HTree) :>
            Resp("ok", Zlib("tree 99 100644 f " \o HBlob \o " " \o HCommit)))
    @@ (BaseA \o get_object_path(HBlob) :>
            Resp("ok", Zlib("blob 41 " \o HCommit \o "\n")))
    @@ (BaseA \o get_object_path(HCorrupt) :> Resp("ok", Text("truncated")))

BaseB == "https://b/sub/.git/"

\* target b: every seeded file is served (empty), HEAD names one commit
ServerB ==
    Override([u \in Range(Seeds(<<"https://b/sub">>)) |-> Resp("ok", Text(""))],
             (BaseB \o "HEAD" :> Resp("ok", Text(HCommit \o "\n")))
             @@ (BaseB \o get_object_path(HCommit) :>
                    Resp("ok", Zlib("commit 9 initial\n"))))

BaseC == "http://c/.git/"

BranchesC == <<"m", "m/n">>

\* target c: a branch m and a branch m/n, both refs served, so that the
\* second is to be written beneath a file
ServerC ==
    (BaseC \o "config" :> Resp("ok", Text(ConfigText(BranchesC))))
    @@ (BaseC \o "refs/heads/m" :> Resp("ok", Text(HCommit \o "\n")))
    @@ (BaseC \o "refs/heads/m/n" :> Resp("ok", Text(HTree \o "\n")))

BaseF == "http://f/.git/"

BranchesF == <<"p/q", "p">>

\* target f: a branch p/q whose ref is served and a branch p whose ref is
\* not, so that the second has a directory at its destination
ServerF ==
    (BaseF \o "config" :> Resp("ok", Text(ConfigText(BranchesF))))
    @@ (BaseF \o "refs/heads/p/q" :> Resp("ok", Text(HTree \o "\n")))

BaseG == "http://g/.git/"

\* target g: the config names a branch made of dot segments, and the server
\* has a file above .git/
ServerG ==
    (BaseG \o "config" :> Resp("ok", Text(ConfigText(<<"../../../x">>))))
    @@ ("http://g/x" :> Resp("ok", Text("secret\n")))

BaseH == "http://h/.git/"

EncodedDots == "%2e%2e/%2e%2e/%2e%2e/%2e%2e/%2e%2e/%2e%2e/y"

\* target h: the config names a branch made of percent-encoded dot
\* segments, which urljoin leaves alone, and the server answers for its ref
ServerH ==
    (BaseH \o "config" :> Resp("ok", Text(ConfigText(<<EncodedDots>>))))
    @@ (BaseH \o "refs/heads/" \o EncodedDots :> Resp("ok", Text("owned\n")))

BaseE == "http://e/.git/"

\* target e: HEAD and the commit it names; and what an interrupted earlier
\* run left in the output directory: HEAD, and the commit object truncated
ServerE ==
    (BaseE \o "HEAD" :> Resp("ok", Text(HCommit \o "\n")))
    @@ (BaseE \o get_object_path(HCommit) :>
            Resp("ok", Zlib("commit 9 initial\n")))

DiskE ==
    (OUTPUT_DIRECTORY \o "/e/.git/HEAD" :> Text(HCommit \o "\n"))
    @@ (OUTPUT_DIRECTORY \o "/e/.git/" \o get_object_path(HCommit) :>
            Text("x"))

\* target d, a repository served at a path ending in ".git"
BaseD == "http://d/x.git/.git/"

ServerD == (BaseD \o "HEAD" :> Resp("ok", Text(HCommit \o "\n")))

\* the worlds: the targets given to run() (in the last world a string that
\* is no URL, for which no server answers), the servers' answers and the
\* output directory as the first run finds it, the base URL of each target
\* and the directory its files are stored in; and,
\* for reference, what was put into the files served: the branch names of
\* each config, the object ids of the entries of each index, and the
\* object ids and refs written in each free-text file, and the tag and
\* the object ids in the payload of each loose object
Worlds ==
    << [urls |-> <<"a">>,
        bases |-> {BaseA},
        invalid |-> FALSE,
        roots |-> {OUTPUT_DIRECTORY \o "/a/.git"},
        disk |-> Empty,
        server |-> ServerA,
        branches |-> (BaseA \o "config" :> [base |-> BaseA, names |-> BranchesA]),
        entries |-> (BaseA \o "index" :> [base |-> BaseA, ids |-> <<HBlob, HTree>>]),
        objects |->
            (BaseA \o get_object_path(HCommit) :>
                [base |-> BaseA, tag |-> "commit", ids |-> <<HTree, HCorrupt>>])
            @@ (BaseA \o get_object_path(HTree) :>
                [base |-> BaseA, tag |-> "tree", ids |-> <<HBlob, HCommit>>])
            @@ (BaseA \o get_object_path(HBlob) :>
                [base |-> BaseA, tag |-> "blob", ids |-> <<HCommit>>]),
        tokens |->
            (BaseA \o "HEAD" :>
                [base |-> BaseA, ids |-> <<>>, refs |-> <<"refs/heads/dev">>])
            @@ (BaseA \o "packed-refs" :>
                [base |-> BaseA, ids |-> <<HCommit>>,
                 refs |-> <<"refs/heads/dev">>])
            @@ (BaseA \o "logs/HEAD" :>
                [base |-> BaseA, ids |-> <<HNull, HCommit>>, refs |-> <<>>])
            @@ (BaseA \o "refs/heads/dev" :>
                [base |-> BaseA, ids |-> <<HCommit>>, refs |-> <<>>])],
       [urls |-> <<"https://b/sub">>,
        bases |-> {BaseB},
        invalid |-> FALSE,
        roots |-> {OUTPUT_DIRECTORY \o "/b/sub/.git"},
        disk |-> Empty,
        server |-> ServerB,
        branches |-> (BaseB \o "config" :> [base |-> BaseB, names |-> <<>>]),
        entries |-> Empty,
        objects |-> (BaseB \o get_object_path(HCommit) :>
                        [base |-> BaseB, tag |-> "commit", ids |-> <<>>]),
        tokens |-> (BaseB \o "HEAD" :>
                       [base |-> BaseB, ids |-> <<HCommit>>, refs |-> <<>>])],
       [urls |-> <<"c/.git", "http://d/x.git/">>,
        bases |-> {BaseC, BaseD},
        invalid |-> FALSE,
        roots |-> {OUTPUT_DIRECTORY \o "/c/.git",
                  OUTPUT_DIRECTORY \o "/d/x.git/.git"},
        disk |-> Empty,
        server |-> ServerC @@ ServerD,
        branches |-> (BaseC \o "config" :> [base |-> BaseC, names |-> BranchesC]),
        entries |-> Empty,
        objects |-> Empty,
        tokens |-> (BaseC \o "refs/heads/m" :>
                       [base |-> BaseC, ids |-> <<HCommit>>, refs |-> <<>>])],
       [urls |-> <<"http://e/.git">>,
        bases |-> {BaseE},
        invalid |-> FALSE,
        roots |-> {OUTPUT_DIRECTORY \o "/e/.git"},
        disk |-> DiskE,
        server |-> ServerE,
        branches |-> Empty,
        entries |-> Empty,
        objects |-> Empty,
        tokens |-> (BaseE \o "HEAD" :>
                       [base |-> BaseE, ids |-> <<HCommit>>, refs |-> <<>>])],
       [urls |-> <<"f">>,
        bases |-> {BaseF},
        invalid |-> FALSE,
        roots |-> {OUTPUT_DIRECTORY \o "/f/.git"},
        disk |-> Empty,
        server |-> ServerF,
        branches |-> (BaseF \o "config" :> [base |-> BaseF, names |-> BranchesF]),
        entries |-> Empty,
        objects |-> Empty,
        tokens |-> Empty],
       [urls |-> <<"g">>,
        bases |-> {BaseG},
        invalid |-> FALSE,
        roots |-> {OUTPUT_DIRECTORY \o "/g/.git"},
        disk |-> Empty,
        server |-> ServerG,
        branches |-> Empty,
        entries |-> Empty,
        objects |-> Empty,
        tokens |-> Empty],
       [urls |-> <<"not a url">>,
        bases |-> {"http://not a url/.git/"},
        invalid |-> TRUE,
        roots |-> {},
        disk |-> Empty,
        server |-> Empty,
        branches |-> Empty,
        entries |-> Empty,
        objects |-> Empty,
        tokens |-> Empty],
       [urls |-> <<"h">>,
        bases |-> {BaseH},
        invalid |-> FALSE,
        roots |-> {OUTPUT_DIRECTORY \o "/h/.git"},
        disk |-> Empty,
        server |-> ServerH,
        branches |-> (BaseH \o "config" :>
                         [base |-> BaseH, names |-> <<EncodedDots>>]),
        entries |-> Empty,
        objects |-> Empty,
        tokens |-> Empty] >>

SeedsOf == [i \in DOMAIN Worlds |-> Seeds(Worlds[i].urls)]

\* ------------------------------------------------------------------------
\* The state.
\* ------------------------------------------------------------------------

VARIABLES
    W,            \* the num_workers argument of GitRipper(...)
    override,     \* self.override_existing
    world,        \* which of Worlds this behaviour runs against
    run,          \* the number of the current run of the program
    runpc,        \* where run() is: start, join, stop, await, retrieve, done
    queue,        \* asyncio.Queue: the items put and not yet got
    unfinished,   \* asyncio.Queue._unfinished_tasks
    seen_urls,    \* seen_urls
    wpc,          \* per worker task: get, download, inflate, done
    file_url,     \* per worker task: the item it got last
    contents,     \* per worker task: the bytes handed to the executor
    files,        \* the file system: path -> content, for the files there
    checked_out,  \* the .git directories retrieve_souce_code ran git for
    got,          \* history: item -> times it was got from the queue
    claimed,      \* history: url -> times it passed the seen-set check
    requested,    \* history: url -> times session.get was called for it
    failed,       \* history: the URLs whose download_file raised
    parsed,       \* history: url -> times parse_file was called for it
    discovered,   \* history: url -> the URLs its parse put on the queue
    existed,      \* history: url -> whether its destination was there
                  \*          when it was claimed, and the content there
    files0,       \* history: the file system when this run started
    seen0,        \* history: the seen-set when the previous run ended
    steps,        \* history: the steps run() and the workers have taken
    call,         \* a call of one function by itself: its name and arguments
    result        \* what that call returned or raised: <<>> before it ends

runvars == << W, override, world, run, runpc, queue, unfinished, seen_urls,
              wpc, file_url, contents, files, checked_out, got, claimed,
              requested, failed, parsed, discovered, existed, files0, seen0,
              steps >>

vars == << runvars, call, result >>

\* what no step of a run changes
cfgvars == << W, override, world, call, result >>

\* "None", the stop signal put on the queue (no URL: a URL holds "://")
None == "None"

Count(f, x) == IF x \in DOMAIN f THEN f[x] ELSE 0

Incr(f, x) == Override(f, x :> (Count(f, x) + 1))

Remove(f, x) == [y \in DOMAIN f \ {x} |-> f[y]]

\* self.num_workers = min(1, num_workers), line 48
num_workers_of(n) == IF 1 < n THEN 1 ELSE n

num_workers == num_workers_of(W)

\* session.get(file_url): what the server answers
Response(url) ==
    IF url \in DOMAIN Worlds[world].server THEN Worlds[world].server[url]
    ELSE NotFound

\* ------------------------------------------------------------------------
\* The file system.
\* ------------------------------------------------------------------------

\* Path.is_dir(): some file lies beneath p
is_dir(fs, p) == \E f \in DOMAIN fs : startswith(f, p \o "/")

\* Path.exists()
exists(fs, p) == p \in DOMAIN fs \/ is_dir(fs, p)

\* mkdir(parents=True, exist_ok=True) and open('wb') succeed: no ancestor
\* of p is a file and p is not a directory
writable(fs, p) ==
    /\ ~is_dir(fs, p)
    /\ \A f \in DOMAIN fs : ~startswith(p, f \o "/")

\* ------------------------------------------------------------------------
\* parse_file.
\* ------------------------------------------------------------------------

\* [urljoin(git_url, ref) for ref in refs], in order
JoinAll(git_url, refs) == [i \in DOMAIN refs |-> urljoin(git_url, refs[i])]

\* gen_branch_refs of every branch, in order
branch_refs(branches) ==
    Flatten([i \in DOMAIN branches |-> gen_branch_refs(branches[i])])

\* lines 185-191: the four refs of every [branch "..."] of the config
parse_config(text, git_url) ==
    JoinAll(git_url, branch_refs(BRANCH_RE_findall(text)))

\* lines 195-204: the loop body reads entry.sha1 and then entry.filename
\* for the log line, before the put.  Entry has no attribute filename
\* (its field is file_path): the first entry raises AttributeError.
RECURSIVE index_puts(_, _, _)
index_puts(entries, git_url, puts) ==
    IF entries = <<>> THEN [exit |-> "normal", puts |-> puts]
    ELSE IF "filename" \notin DOMAIN Head(entries)
    THEN [exit |-> "exception", puts |-> puts]
    ELSE index_puts(Tail(entries), git_url,
                    Append(puts,
                           urljoin(git_url,
                                   get_object_path(hex(Head(entries).sha1)))))

index_result(index, git_url) ==
    IF index.error # "" THEN [exit |-> "exception", puts |-> <<>>]
    ELSE index_puts(index.entries, git_url, <<>>)

\* lines 192-204
parse_index(c, git_url) == index_result(GitIndex(c), git_url)

\* f'objects/pack/{pack}.idx' and f'objects/pack/{pack}.pack' of every pack
pack_files(packs) ==
    Flatten([i \in DOMAIN packs |->
                << "objects/pack/" \o packs[i] \o ".idx",
                   "objects/pack/" \o packs[i] \o ".pack" >>])

\* lines 205-212
parse_packs(text, git_url) ==
    JoinAll(git_url, pack_files(PACK_HASH_RE_findall(text)))

\* x if x.startswith('ref') else self.get_object_path(x)
ref_or_object(xs) ==
    [i \in DOMAIN xs |->
        IF startswith(xs[i], "ref") THEN xs[i] ELSE get_object_path(xs[i])]

\* lines 232-242
parse_other(text, git_url) ==
    JoinAll(git_url, ref_or_object(HASH_OR_REF_RE_findall(text)))

\* the branches of parse_file that read text: read_text raises on bytes
\* that are no text
text_result(t, puts) ==
    IF t.ok THEN [exit |-> "normal", puts |-> puts]
    ELSE [exit |-> "exception", puts |-> <<>>]

\* lines 185-242, the dispatch on filename
parse_named(c, filename, git_url) ==
    IF filename = "config"
    THEN text_result(read_text(c), parse_config(read_text(c).text, git_url))
    ELSE IF filename = "index" THEN parse_index(c, git_url)
    ELSE IF filename = "objects/info/packs"
    THEN text_result(read_text(c), parse_packs(read_text(c).text, git_url))
    ELSE IF OBJECT_FILENAME_RE_fullmatch(filename)
    THEN [exit |-> "await", puts |-> <<>>]
    ELSE text_result(read_text(c), parse_other(read_text(c).text, git_url))

\* line 184: _, filename = str(file_path).split('.git/')
parse_parts(fs, file_path, git_url, parts) ==
    IF Len(parts) # 2 \/ file_path \notin DOMAIN fs
    THEN [exit |-> "exception", puts |-> <<>>]
    ELSE parse_named(fs[file_path], parts[2], git_url)

\* parse_file up to its return, its exception or its await of the executor:
\* exit is "normal", "exception" or "await"; puts are the URLs put so far
parse_file(fs, file_path, git_url) ==
    parse_parts(fs, file_path, git_url, split(file_path, ".git/"))

\* lines 229-231: the object path of every hash of the text
object_refs(xs) == [i \in DOMAIN xs |-> get_object_path(xs[i])]

\* a parser that scans blobs like any other object
is_blob_never(decoded_text) == FALSE

\* line 225: decoded[:4] == b'blob'
is_blob(decoded_text) ==
    SubSeq(decoded_text, 1,
           IF Len(decoded_text) < 4 THEN Len(decoded_text) ELSE 4) = "blob"

\* lines 221-231, after the executor answered: unlink on zlib.error, nothing
\* for a blob, else the hashes of the decoded text
parse_decoded(decoded, git_url) ==
    IF ~decoded.ok THEN [unlink |-> TRUE, puts |-> <<>>]
    ELSE IF is_blob(decoded.text)
    THEN [unlink |-> FALSE, puts |-> <<>>]
    ELSE [unlink |-> FALSE,
          puts |-> JoinAll(git_url, object_refs(HASH_RE_findall(decoded.text)))]

parse_object(c, git_url) == parse_decoded(zlib_decompress(c), git_url)

\* ------------------------------------------------------------------------
\* run().
\* ------------------------------------------------------------------------

Init ==
    /\ W \in 0..MaxW
    /\ override \in BOOLEAN
    /\ world \in DOMAIN Worlds
    /\ run = 1
    /\ runpc = "start"
    /\ call = [f |-> "run"]
    /\ result = <<>>
    /\ queue = <<>>
    /\ unfinished = 0
    /\ seen_urls = {}
    /\ wpc = <<>>
    /\ file_url = <<>>
    /\ contents = <<>>
    /\ files = Worlds[world].disk
    /\ checked_out = {}
    /\ got = Empty
    /\ claimed = Empty
    /\ requested = Empty
    /\ failed = {}
    /\ parsed = Empty
    /\ discovered = Empty
    /\ existed = Empty
    /\ files0 = Worlds[world].disk
    /\ seen0 = {}
    /\ steps = 0

\* lines 60-75: the seeds are put, the seen-set is made, the tasks are created
RunStart ==
    /\ runpc = "start"
    /\ runpc' = "join"
    /\ queue' = SeedsOf[world]
    /\ unfinished' = Len(SeedsOf[world])
    /\ seen_urls' = {}
    /\ wpc' = [w \in 1..num_workers |-> "get"]
    /\ file_url' = [w \in 1..num_workers |-> ""]
    /\ contents' = [w \in 1..num_workers |-> Text("")]
    /\ steps' = steps + 1
    /\ UNCHANGED << cfgvars, run, files, checked_out, got, claimed, requested,
                    failed, parsed, discovered, existed, files0, seen0 >>

\* a join that returns as soon as the queue is empty
join_when_empty(q, u) == Len(q) = 0

\* Queue.join(), line 78: returns once _unfinished_tasks is 0
join_ready(q, u) == u = 0

Join ==
    /\ runpc = "join"
    /\ join_ready(queue, unfinished)
    /\ runpc' = "stop"
    /\ steps' = steps + 1
    /\ UNCHANGED << cfgvars, run, queue, unfinished, seen_urls, wpc, file_url,
                    contents, files, checked_out, got, claimed, requested,
                    failed, parsed, discovered, existed, files0, seen0 >>

\* lines 81-82: one None per worker (put never waits: the queue is unbounded)
stop_signals_none(n) == 0

\* lines 81-82: "for _ in range(self.num_workers)", one put of None each
stop_signals(n) == IF n > 0 THEN n ELSE 0

Stop ==
    /\ runpc = "stop"
    /\ runpc' = "await"
    /\ queue' = queue \o [i \in 1..stop_signals(num_workers) |-> None]
    /\ unfinished' = unfinished + stop_signals(num_workers)
    /\ steps' = steps + 1
    /\ UNCHANGED << cfgvars, run, seen_urls, wpc, file_url, contents, files,
                    checked_out, got, claimed, requested, failed, parsed,
                    discovered, existed, files0, seen0 >>

\* lines 84-85: every worker task is awaited
AwaitWorkers ==
    /\ runpc = "await"
    /\ \A w \in DOMAIN wpc : wpc[w] = "done"
    /\ runpc' = "retrieve"
    /\ steps' = steps + 1
    /\ UNCHANGED << cfgvars, run, queue, unfinished, seen_urls, wpc, file_url,
                    contents, files, checked_out, got, claimed, requested,
                    failed, parsed, discovered, existed, files0, seen0 >>

\* output_directory.glob('*/.git') that are directories
git_dirs(fs) ==
    { join("/", SubSeq(split(f, "/"), 1, 3)) :
        f \in { g \in DOMAIN fs :
                  LET parts == split(g, "/")
                  IN  /\ Len(parts) >= 4
                      /\ parts[1] = OUTPUT_DIRECTORY
                      /\ parts[3] = ".git" } }

\* line 88, retrieve_souce_code: one git checkout per directory found
Retrieve ==
    /\ runpc = "retrieve"
    /\ runpc' = "done"
    /\ checked_out' = git_dirs(files)
    /\ steps' = steps + 1
    /\ UNCHANGED << cfgvars, run, queue, unfinished, seen_urls, wpc, file_url,
                    contents, files, got, claimed, requested, failed, parsed,
                    discovered, existed, files0, seen0 >>

\* the program is started again with the same arguments on the same
\* output directory
Rerun ==
    /\ runpc = "done"
    /\ run < MaxRuns
    /\ run' = run + 1
    /\ runpc' = "start"
    /\ queue' = <<>>
    /\ unfinished' = 0
    /\ seen_urls' = {}
    /\ wpc' = <<>>
    /\ file_url' = <<>>
    /\ contents' = <<>>
    /\ checked_out' = {}
    /\ got' = Empty
    /\ claimed' = Empty
    /\ requested' = Empty
    /\ failed' = {}
    /\ parsed' = Empty
    /\ discovered' = Empty
    /\ existed' = Empty
    /\ files0' = files
    /\ seen0' = seen_urls
    /\ UNCHANGED << cfgvars, files, steps >>

\* ------------------------------------------------------------------------
\* worker().
\* ------------------------------------------------------------------------

\* a worker that never consults the seen-set
already_seen_never(url, seen) == FALSE

\* line 99: if file_url in seen_urls
already_seen(url, seen) == url \in seen

\* a worker that downloads whatever is on disk
need_download_always(ovr, there) == TRUE

\* line 110: if self.override_existing or not file_path.exists()
need_download(ovr, there) == ovr \/ ~there

\* a worker that leaves a file it did not download unparsed
parse_existing_never == FALSE

\* lines 120-125: after the else branch ("file exists") parse_file is called
parse_existing == TRUE

\* task_done() at the end of the loop body instead of in a finally: the
\* continue statements and the exceptions pass it by
unfinished_after_body(u, exit) ==
    IF exit \in {"continue", "exception"} THEN u ELSE u - 1

\* line 129: queue.task_done() in the finally of the loop body, however the
\* body was left: "break", "continue", "exception" or "normal"
unfinished_after(u, exit) == u - 1

\* a worker without the except of lines 126-127: the exception ends the task
after_exception_raise == "done"

\* lines 126-127: except Exception logs, and the loop goes on to the next get
after_exception == "get"

\* the loop body ends without parse_file (continue, or an exception)
EndItem(w, q, fs, exit) ==
    /\ queue' = q
    /\ files' = fs
    /\ unfinished' = unfinished_after(unfinished, exit)
    /\ wpc' = [wpc EXCEPT ![w] = IF exit = "exception" THEN after_exception
                                 ELSE "get"]
    /\ UNCHANGED << contents, parsed, discovered >>

\* what the loop body does with the result r of parse_file
Parsed(w, q, fs, url, p, r) ==
    /\ parsed' = Incr(parsed, url)
    /\ files' = fs
    /\ IF r.exit = "await"
       THEN /\ wpc' = [wpc EXCEPT ![w] = "inflate"]
            /\ contents' = [contents EXCEPT ![w] = fs[p]]
            /\ queue' = q
            /\ UNCHANGED << unfinished, discovered >>
       ELSE /\ wpc' = [wpc EXCEPT ![w] = IF r.exit = "exception"
                                        THEN after_exception ELSE "get"]
            /\ queue' = q \o r.puts
            /\ unfinished' = unfinished_after(unfinished + Len(r.puts), r.exit)
            /\ discovered' = Override(discovered, url :> r.puts)
            /\ UNCHANGED contents

\* lines 123-125: parse_file(file_path, get_git_baseurl(file_url), queue),
\* up to the end of the loop body or to the await of the executor
Parse(w, q, fs, url, p) ==
    Parsed(w, q, fs, url, p, parse_file(fs, p, get_git_baseurl(url)))

\* lines 110-125: the download starts, or the file there is parsed
Start(w, item, q, p) ==
    IF need_download(override, exists(files, p))
    THEN /\ wpc' = [wpc EXCEPT ![w] = "download"]
         /\ requested' = Incr(requested, item)
         /\ queue' = q
         /\ UNCHANGED << unfinished, contents, files, parsed, discovered >>
    ELSE /\ UNCHANGED requested
         /\ IF parse_existing THEN Parse(w, q, files, item, p)
            ELSE EndItem(w, q, files, "normal")

\* lines 103-125: the URL is claimed and its destination resolved
Claim(w, item, q, p) ==
    /\ seen_urls' = seen_urls \cup {item}
    /\ claimed' = Incr(claimed, item)
    /\ IF p = ""
       THEN /\ EndItem(w, q, files, "exception")
            /\ UNCHANGED << requested, existed >>
       ELSE /\ existed' = Override(existed,
                                   item :> [there |-> exists(files, p),
                                            file |-> p \in DOMAIN files,
                                            content |-> IF p \in DOMAIN files
                                                        THEN files[p]
                                                        ELSE Text("")])
            /\ Start(w, item, q, p)

\* lines 96-101: None ends the loop, a seen URL is skipped
Got(w, item, q) ==
    /\ file_url' = [file_url EXCEPT ![w] = item]
    /\ got' = Incr(got, item)
    /\ IF item = None
       THEN /\ queue' = q
            /\ unfinished' = unfinished_after(unfinished, "break")
            /\ wpc' = [wpc EXCEPT ![w] = "done"]
            /\ UNCHANGED << seen_urls, contents, files, claimed, requested,
                            parsed, discovered, existed >>
       ELSE IF already_seen(item, seen_urls)
       THEN /\ EndItem(w, q, files, "continue")
            /\ UNCHANGED << seen_urls, claimed, requested, existed >>
       ELSE Claim(w, item, q, local_path(item))

\* lines 94-110 and, when nothing is downloaded, 120-129: one item is got
\* and handled up to the next point where the task waits
WorkerGet(w) ==
    /\ w \in DOMAIN wpc
    /\ wpc[w] = "get"
    /\ queue # <<>>
    /\ Got(w, Head(queue), Tail(queue))
    /\ steps' = steps + 1
    /\ UNCHANGED << cfgvars, run, runpc, checked_out, failed, files0, seen0 >>

unlink_skipped(fs, p) == fs

\* lines 117-118: "if file_path.exists(): file_path.unlink()"; for a
\* directory unlink raises and nothing is removed
unlink(fs, p) == IF p \in DOMAIN fs THEN Remove(fs, p) ELSE fs

\* download_file answered: with ok the body is written (lines 171-174) and
\* parsed; else the download failed (status, text/html, transport, file
\* system), the file is unlinked if it exists, and the loop continues
Downloaded(w, url, p, resp, ok) ==
    /\ ok => resp.status \in {"ok", "flaky"}
    /\ ~ok => resp.status \in {"err", "html", "flaky"}
    /\ IF ok /\ writable(files, p)
       THEN /\ Parse(w, queue, Override(files, p :> resp.body), url, p)
            /\ UNCHANGED failed
       ELSE /\ EndItem(w, queue, unlink(files, p),
                       IF is_dir(files, p) THEN "exception" ELSE "continue")
            /\ failed' = failed \cup {url}

\* lines 112-119 and 123-129
WorkerDownload(w) ==
    /\ w \in DOMAIN wpc
    /\ wpc[w] = "download"
    /\ \E ok \in BOOLEAN :
           Downloaded(w, file_url[w], local_path(file_url[w]),
                      Response(file_url[w]), ok)
    /\ steps' = steps + 1
    /\ UNCHANGED << cfgvars, run, runpc, seen_urls, file_url, checked_out,
                    got, claimed, requested, existed, files0, seen0 >>

\* an unlink that takes the whole output directory with it
unlink_object_all(fs, p) == Empty

\* line 223: file_path.unlink() of the object that does not inflate
unlink_object(fs, p) == Remove(fs, p)

\* the executor answered with r; gone: the unlink finds no file and raises
Inflated(w, url, p, r, gone) ==
    /\ files' = IF r.unlink /\ ~gone THEN unlink_object(files, p) ELSE files
    /\ queue' = queue \o r.puts
    /\ unfinished' = unfinished_after(unfinished + Len(r.puts),
                                      IF gone THEN "exception" ELSE "normal")
    /\ wpc' = [wpc EXCEPT ![w] = IF gone THEN after_exception ELSE "get"]
    /\ discovered' = Override(discovered, url :> r.puts)
    /\ contents' = [contents EXCEPT ![w] = Text("")]

InflatedAt(w, url, p, r) ==
    Inflated(w, url, p, r, r.unlink /\ p \notin DOMAIN files)

\* lines 221-231 and 126-129
WorkerInflate(w) ==
    /\ w \in DOMAIN wpc
    /\ wpc[w] = "inflate"
    /\ InflatedAt(w, file_url[w], local_path(file_url[w]),
                  parse_object(contents[w], get_git_baseurl(file_url[w])))
    /\ steps' = steps + 1
    /\ UNCHANGED << cfgvars, run, runpc, seen_urls, file_url, checked_out, got,
                    claimed, requested, failed, parsed, existed, files0,
                    seen0 >>

Next ==
    \/ RunStart
    \/ Join
    \/ Stop
    \/ AwaitWorkers
    \/ Retrieve
    \/ Rerun
    \/ \E w \in 1..MaxW : WorkerGet(w)
    \/ \E w \in 1..MaxW : WorkerDownload(w)
    \/ \E w \in 1..MaxW : WorkerInflate(w)

Spec == Init /\ [][Next]_vars

\* the worker tasks that wait for a download or for the executor
InFlight == { w \in DOMAIN wpc : wpc[w] \in {"download", "inflate"} }

\* some task of the event loop can run: the guards of the steps of run()
\* and of the workers (a worker at queue.get() with the queue empty, and
\* run() at a join or an await that is not due, are suspended)
Runnable ==
    \/ runpc \in {"start", "stop", "retrieve"}
    \/ runpc = "join" /\ join_ready(queue, unfinished)
    \/ runpc = "await" /\ \A w \in DOMAIN wpc : wpc[w] = "done"
    \/ \E w \in DOMAIN wpc : wpc[w] = "get" /\ queue # <<>>
    \/ InFlight # {}

\* a step of run() or of a worker: each of them counts in steps, and
\* starting the program again does not
Progress == Runnable /\ steps' = steps + 1

\* the event loop runs a task whenever one can run, and every download and
\* every executor call is answered; a second run of the program is never due
FairSpec == Spec /\ WF_steps(Progress)

\* ------------------------------------------------------------------------
\* The functions called by themselves.
\* ------------------------------------------------------------------------

\* the paths of the entries: the first n of MaxPathLen bytes, "bcd..."
PathOfLen(n) == [i \in 1..n |-> 97 + (i % 26)]

\* the entries an index is built of: every path length, two object ids
IndexEntries ==
    { [id |-> IF n % 2 = 1 THEN HBlob ELSE HTree, path |-> PathOfLen(n)] :
          n \in 1..MaxPathLen }

\* the lists of at most n entries
RECURSIVE EntryLists(_)
EntryLists(n) ==
    IF n = 0 THEN {<<>>}
    ELSE EntryLists(n - 1)
         \cup { Append(es, x) : es \in { l \in EntryLists(n - 1) : Len(l) = n - 1 },
                                x \in IndexEntries }

\* b"DIRX"
DIRX == <<68, 73, 82, 88>>

\* the index files GitIndex is called with: well formed, with or without
\* data after the last entry; a wrong signature or version; cut short
GitIndexCalls ==
    { [f |-> "GitIndex", signature |-> DIRC, version |-> 2, entries |-> es,
       trailer |-> t, cut |-> 0] : es \in EntryLists(MaxEntries), t \in BOOLEAN }
    \cup
    { [f |-> "GitIndex", signature |-> s, version |-> v, entries |-> es,
       trailer |-> FALSE, cut |-> 0] :
          s \in {DIRC, DIRX}, v \in 1..5, es \in EntryLists(1) }
    \cup
    { [f |-> "GitIndex", signature |-> DIRC, version |-> 2, entries |-> es,
       trailer |-> FALSE, cut |-> k] :
          es \in EntryLists(MaxEntries) \ {<<>>}, k \in 1..MaxCut }

\* the bytes of the file of a call: a trailer is a "TREE" extension header
\* after the entries, a cut takes bytes off the end
CutOff(b, k) == SubSeq(b, 1, Len(b) - k)

IndexFile(c) ==
    CutOff(IndexBuffer(c.signature, c.version, c.entries)
               \o (IF c.trailer THEN <<84, 82, 69, 69, 0, 0, 0, 0>> ELSE <<>>),
           c.cut)

\* the origins normalize_git_url is called with: with and without a
\* scheme, a path, a trailing slash, a trailing .git
NormalizeCalls ==
    { [f |-> "normalize_git_url", scheme |-> s, host |-> "example.org",
       path |-> p, suffix |-> x] :
          s \in {"", "http://", "https://", "HTTP://"},
          p \in {"", "/sub", "/repo.git"},
          x \in {"", "/", "/.git", "/.git/"} }

Origin(c) == c.scheme \o c.host \o c.path \o c.suffix

Calls == GitIndexCalls \cup NormalizeCalls

\* no run: one call
FnInit ==
    /\ call \in Calls
    /\ result = <<>>
    /\ W = 0
    /\ override = FALSE
    /\ world = 1
    /\ run = 1
    /\ runpc = "call"
    /\ queue = <<>>
    /\ unfinished = 0
    /\ seen_urls = {}
    /\ wpc = <<>>
    /\ file_url = <<>>
    /\ contents = <<>>
    /\ files = Empty
    /\ checked_out = {}
    /\ got = Empty
    /\ claimed = Empty
    /\ requested = Empty
    /\ failed = {}
    /\ parsed = Empty
    /\ discovered = Empty
    /\ existed = Empty
    /\ files0 = Empty
    /\ seen0 = {}
    /\ steps = 0

\* GitIndex(fp) returns or raises
CallGitIndex ==
    /\ call.f = "GitIndex"
    /\ result = <<>>
    /\ result' = <<GitIndex(Bytes(IndexFile(call)))>>
    /\ UNCHANGED << runvars, call >>

\* normalize_git_url(url) returns
CallNormalize ==
    /\ call.f = "normalize_git_url"
    /\ result = <<>>
    /\ result' = <<normalize_git_url(Origin(call))>>
    /\ UNCHANGED << runvars, call >>

FnNext ==
    \/ CallGitIndex
    \/ CallNormalize

FnSpec == FnInit /\ [][FnNext]_vars

\* ------------------------------------------------------------------------
\* Properties.
\* ------------------------------------------------------------------------

URLs == DOMAIN got \ {None}

\* C1: within one run every artifact URL passes the seen-set check at most
\* once, is requested at most once and is parsed at most once, however often
\* it is got from the queue; the URLs that passed are exactly the seen-set.
C1_AtMostOnce ==
    /\ DOMAIN claimed = seen_urls
    /\ \A u \in URLs :
           /\ Count(claimed, u) <= 1
           /\ Count(requested, u) <= 1
           /\ Count(parsed, u) <= 1

\* a URL was got a second time and skipped
C1_Witness ==
    \E u \in URLs :
        /\ Count(got, u) >= 2
        /\ Count(claimed, u) = 1
        /\ Count(parsed, u) = 1

\* C2: with at least one worker, a run that waits at queue.join() gets to
\* the reconstruction step (the worlds are finite, one of them has a cycle
\* of objects).
C2_Termination == (W >= 1 /\ runpc = "join") ~> (runpc = "retrieve")

\* the run got past the drain in the world whose objects form a cycle, both
\* objects of the cycle parsed
C2_Witness ==
    /\ W >= 1
    /\ runpc = "retrieve"
    /\ world = 1
    /\ BaseA \o get_object_path(HCommit) \in DOMAIN discovered
    /\ BaseA \o get_object_path(HTree) \in DOMAIN discovered
    /\ Count(got, BaseA \o get_object_path(HCommit)) >= 2

\* C3: once run() is past queue.join(), no worker is in the middle of an
\* item and the queue holds no artifact URL: at that point it is empty with
\* nothing pending, and later it holds stop sentinels only.
C3_Drain ==
    runpc \in {"stop", "await", "retrieve", "done"} =>
        /\ InFlight = {}
        /\ \A i \in DOMAIN queue : queue[i] = None
        /\ runpc = "stop" => queue = <<>> /\ unfinished = 0

\* the drain was passed after parsing had put more URLs on the queue
C3_Witness ==
    /\ runpc = "stop"
    /\ \E u \in DOMAIN discovered : discovered[u] # <<>>
    /\ seen_urls # {}

\* C4: the pending count is the number of items on the queue plus the
\* number of items a worker is in the middle of, so every item got is
\* counted done once, however its handling ended; and a worker task that
\* ended did so on the stop sentinel.
C4_PerItem ==
    /\ unfinished = Len(queue) + Cardinality(InFlight)
    /\ \A w \in DOMAIN wpc : wpc[w] = "done" => file_url[w] = None

\* a skip, a failed download, a parse exception and a success all happened,
\* and the worker is at its next get
C4_Witness ==
    /\ \E w \in DOMAIN wpc : wpc[w] = "get"
    /\ \E u \in URLs : Count(got, u) >= 2
    /\ \E u \in DOMAIN requested : u \notin DOMAIN parsed /\ u \in DOMAIN got
    /\ BaseA \o "index" \in DOMAIN parsed
    /\ \E u \in DOMAIN discovered : discovered[u] # <<>>
    /\ runpc = "join"

\* C5: for a worker count W >= 1, run() starts exactly W worker tasks, and
\* never more than W URLs are in download at a time.
C5_PoolSize ==
    (W >= 1 /\ runpc # "start") =>
        /\ Cardinality(DOMAIN wpc) = W
        /\ Cardinality(InFlight) <= W

\* every URL the previous run claimed had its file on disk when this run
\* started
Populated0 == \A u \in seen0 : local_path(u) \in DOMAIN files0

\* C6 as stated: a run (override off) that follows a completed run makes no
\* network request and leaves the set of files as it found it.
C6_AfterAnyRun ==
    (run >= 2 /\ ~override) =>
        /\ requested = Empty
        /\ DOMAIN files = DOMAIN files0

\* C6: a run (override off) that follows a run which left the output
\* directory fully populated, a file for every URL it claimed, makes no
\* network request and leaves the files as it found them.
C6_Idempotent ==
    (run >= 2 /\ ~override /\ Populated0) =>
        /\ requested = Empty
        /\ files = files0

\* a second run over a fully populated directory is through, its files
\* parsed again
C6_Witness ==
    /\ run >= 2
    /\ ~override
    /\ runpc = "done"
    /\ seen0 # {}
    /\ Populated0
    /\ \E u \in DOMAIN discovered : discovered[u] # <<>>

\* the file at p is there with content c
Unchanged(p, c) == p \in DOMAIN files /\ files[p] = c

\* the file at p is gone, and it was a loose object that does not inflate
Discarded(p, c) ==
    /\ p \notin DOMAIN files
    /\ ~zlib_decompress(c).ok
    /\ Len(split(p, ".git/")) = 2
    /\ OBJECT_FILENAME_RE_fullmatch(split(p, ".git/")[2])

\* a network request is made for a claimed URL exactly when its destination
\* was absent or override is on
RequestedIffNeeded ==
    \A u \in DOMAIN existed :
        (u \in DOMAIN requested) <=> (override \/ ~existed[u].there)

\* C7 as stated: a claimed URL whose destination exists, override off, is
\* not requested, its file is left unchanged and is parsed; a request is
\* made exactly when the destination is absent or override is on.
C7_AlwaysUnchanged ==
    /\ RequestedIffNeeded
    /\ \A u \in DOMAIN existed :
           (existed[u].there /\ ~override) =>
               /\ u \in DOMAIN parsed
               /\ existed[u].file =>
                      Unchanged(local_path(u), existed[u].content)

\* C7: a claimed URL whose destination exists, override off, is not
\* requested and its file is parsed; the file is left unchanged, unless it
\* is a loose object that does not inflate, which parsing deletes; a
\* request is made exactly when the destination is absent or override is on.
C7_SkipIfExists ==
    /\ RequestedIffNeeded
    /\ \A u \in DOMAIN existed :
           (existed[u].there /\ ~override) =>
               /\ u \in DOMAIN parsed
               /\ existed[u].file =>
                      \/ Unchanged(local_path(u), existed[u].content)
                      \/ Discarded(local_path(u), existed[u].content)

\* a file found on disk was parsed without a request and its parse put
\* URLs on the queue, while another claimed URL was requested
C7_Witness ==
    /\ ~override
    /\ \E u \in DOMAIN existed :
           /\ existed[u].there
           /\ u \notin DOMAIN requested
           /\ u \in DOMAIN discovered
           /\ discovered[u] # <<>>
    /\ \E u \in DOMAIN existed : ~existed[u].there /\ u \in DOMAIN requested

\* <base>objects/<first 2 hex>/<remaining 38 hex>
ObjectURL(base, id) ==
    base \o "objects/" \o SubSeq(id, 1, 2) \o "/" \o SubSeq(id, 3, 40)

\* C8: once a well-formed index is parsed, the loose-object URL of every
\* one of its entries has been put on the queue.
C8_IndexDiscovery ==
    \A u \in DOMAIN discovered \cap DOMAIN Worlds[world].entries :
        \A i \in DOMAIN Worlds[world].entries[u].ids :
            ObjectURL(Worlds[world].entries[u].base,
                      Worlds[world].entries[u].ids[i])
                \in Range(discovered[u])

\* C9: once a free-text file is parsed, the loose-object URL of every
\* object id in it and <base><ref> of every refs/... token in it have been
\* put on the queue.
C9_FreeText ==
    \A u \in DOMAIN discovered \cap DOMAIN Worlds[world].tokens :
        /\ \A i \in DOMAIN Worlds[world].tokens[u].ids :
               ObjectURL(Worlds[world].tokens[u].base,
                         Worlds[world].tokens[u].ids[i])
                   \in Range(discovered[u])
        /\ \A i \in DOMAIN Worlds[world].tokens[u].refs :
               Worlds[world].tokens[u].base \o Worlds[world].tokens[u].refs[i]
                   \in Range(discovered[u])

\* the four URLs of a branch
FourRefs(base, name) ==
    << base \o "refs/heads/" \o name,
       base \o "refs/remotes/origin/" \o name,
       base \o "logs/refs/heads/" \o name,
       base \o "logs/refs/remotes/origin/" \o name >>

\* the four URLs of every branch, in the order of the sections
AllFourRefs(b) == Flatten([i \in DOMAIN b.names |-> FourRefs(b.base, b.names[i])])

ObjectURLs(o) == [i \in DOMAIN o.ids |-> ObjectURL(o.base, o.ids[i])]

\* C11: once a loose object that inflates is parsed, nothing was put on the
\* queue for it if its payload is tagged blob, whatever ids the payload
\* holds; else the loose-object URL of every 40-hex token of the payload was
\* put, one per token and nothing else.
C11_ObjectClassification ==
    \A u \in DOMAIN discovered \cap DOMAIN Worlds[world].objects :
        discovered[u] = IF Worlds[world].objects[u].tag = "blob" THEN <<>>
                        ELSE ObjectURLs(Worlds[world].objects[u])

\* a blob holding an object id was parsed and put nothing, a tree and a
\* commit with two ids each put two URLs
C11_Witness ==
    /\ world = 1
    /\ BaseA \o get_object_path(HBlob) \in DOMAIN discovered
    /\ BaseA \o get_object_path(HTree) \in DOMAIN discovered
    /\ Len(discovered[BaseA \o get_object_path(HTree)]) = 2
    /\ BaseA \o get_object_path(HCommit) \in DOMAIN discovered
    /\ Len(discovered[BaseA \o get_object_path(HCommit)]) = 2


\* the entries of the call were returned: as many, in order, each with its
\* object id and its path
SameEntries(given, entries) ==
    /\ Len(entries) = Len(given)
    /\ \A i \in DOMAIN given :
           /\ hex(entries[i].sha1) = given[i].id
           /\ entries[i].file_path = given[i].path

\* C12: an index file with the signature DIRC, version 2, the count N and N
\* entries padded to multiples of 8 bytes parses without an error to the N
\* entries given: as many, in order, each with its object id and its path,
\* whatever follows the last entry.
C12_IndexRoundTrip ==
    \A i \in DOMAIN result :
        (call.f = "GitIndex" /\ call.signature = DIRC /\ call.version = 2
         /\ call.cut = 0) =>
            /\ result[i].error = ""
            /\ SameEntries(call.entries, result[i].entries)

\* two entries whose paths need different padding, and an extension after
\* them, were parsed
C12_Witness ==
    /\ call.f = "GitIndex"
    /\ result # <<>>
    /\ call.cut = 0
    /\ call.trailer
    /\ Len(call.entries) = 2
    /\ Len(call.entries[1].path) = 2
    /\ Len(call.entries[2].path) = 5
    /\ call.entries[1].id # call.entries[2].id


\* the NUL bytes git writes after the path of an entry: 1 to 8
PadLen(entry) == 8 - ((EntryFixedSize + Len(entry.path)) % 8)

\* the cut took data of the last entry, not only NUL bytes after its path
DataCut(c) == c.cut > PadLen(c.entries[Len(c.entries)])

\* GitIndex raised: the caller has no entry list and its loop puts nothing
Rejected(r) ==
    /\ r.error # ""
    /\ "entries" \notin DOMAIN r
    /\ index_result(r, BaseA).puts = <<>>

\* C13: GitIndex raises InvalidSignature for a signature other than DIRC,
\* InvalidVersion for a version other than 2, 3 and 4, and an error for a
\* file that ends before all its entries; in each case the caller gets no
\* entry list and discovery puts nothing on the queue.
C13_IndexRejection ==
    \A i \in DOMAIN result :
        call.f = "GitIndex" =>
            /\ call.signature # DIRC =>
                   result[i].error = "InvalidSignature" /\ Rejected(result[i])
            /\ (call.signature = DIRC /\ call.version \notin {2, 3, 4}) =>
                   result[i].error = "InvalidVersion" /\ Rejected(result[i])
            /\ (call.cut > 0 /\ DataCut(call)) => Rejected(result[i])


OnDisk(d) == \E f \in DOMAIN files : startswith(f, d \o "/")

\* C15: when run() is through, a checkout was made for every target whose
\* .git directory is on disk, wherever below the output directory the
\* target is stored.
C15_Reconstruction ==
    runpc = "done" =>
        \A d \in Worlds[world].roots : OnDisk(d) => d \in checked_out


\* C16: for a target that cannot be parsed as a URL the run ends before a
\* URL is put on the queue, a worker is started or a request is made.
C16_InvalidTarget ==
    Worlds[world].invalid =>
        /\ queue = <<>>
        /\ DOMAIN wpc = {}
        /\ requested = Empty


\* the stop signals waiting on the queue
Signals == Cardinality({ i \in DOMAIN queue : queue[i] = None })

\* the worker tasks that have left their loop
Exited == { w \in DOMAIN wpc : wpc[w] = "done" }

\* C17: no stop signal exists before the drain; after it one signal per
\* started worker has been put, each is either still queued or was taken by
\* a worker that then left its loop (so a worker takes exactly one), and
\* reconstruction starts only when every worker has left its loop and the
\* queue is empty.
C17_StopProtocol ==
    /\ runpc \in {"start", "join", "stop"} =>
           Signals = 0 /\ Count(got, None) = 0 /\ Exited = {}
    /\ runpc = "await" =>
           /\ Signals + Count(got, None) = Cardinality(DOMAIN wpc)
           /\ Cardinality(Exited) = Count(got, None)
           /\ Signals = Len(queue)
    /\ runpc \in {"retrieve", "done"} =>
           /\ Exited = DOMAIN wpc
           /\ Count(got, None) = Cardinality(DOMAIN wpc)
           /\ queue = <<>>
           /\ unfinished = 0

\* a run with a started worker that did work, took its stop signal and left
\* its loop, at the moment reconstruction is about to start
C17_Witness ==
    /\ runpc = "retrieve"
    /\ DOMAIN wpc # {}
    /\ Exited = DOMAIN wpc
    /\ Count(got, None) = Cardinality(DOMAIN wpc)
    /\ parsed # Empty


\* the URLs whose download fails in this step
FailingNow == failed' \ failed

\* what stays true of a URL whose download failed: it was requested once,
\* it is not parsed, it put nothing on the queue and it stays in the
\* seen-set; the worker that had it is not left at the download
StaysFailed ==
    \A u \in failed :
        /\ Count(requested, u) = 1
        /\ u \notin DOMAIN parsed
        /\ u \notin DOMAIN discovered
        /\ u \in seen_urls
        /\ \A w \in DOMAIN wpc :
               file_url[w] = u => wpc[w] \in {"get", "done"}

\* the step of a failing download leaves nothing at all at the destination,
\* puts nothing on the queue and sends the worker back to queue.get()
NothingLeft ==
    \A u \in FailingNow :
        /\ ~exists(files', local_path(u))
        /\ queue' = queue
        /\ \A w \in DOMAIN wpc : file_url[w] = u => wpc'[w] = "get"

\* C18 as stated: after a failed download the destination path does not
\* exist, the artifact is not parsed and enqueues nothing, the URL stays
\* seen and the worker continues.
C18_NothingAtDestination == [][NothingLeft]_vars /\ []StaysFailed

\* the step of a failing download leaves no file at the destination, puts
\* nothing on the queue and sends the worker back to queue.get()
NoFileLeft ==
    \A u \in FailingNow :
        /\ local_path(u) \notin DOMAIN files'
        /\ queue' = queue
        /\ \A w \in DOMAIN wpc : file_url[w] = u => wpc'[w] = "get"

\* C18: after a failed download no file is at the destination (a directory
\* that other artifacts made there stays), the artifact is not parsed and
\* enqueues nothing, the URL stays seen and the worker continues.
C18_DownloadFailure == [][NoFileLeft]_vars /\ []StaysFailed

\* a download failed for a URL whose file was there when it was claimed,
\* and the file is gone
C18_Witness ==
    \E u \in failed :
        /\ existed[u].file
        /\ local_path(u) \notin DOMAIN files
        /\ \E w \in DOMAIN wpc : file_url[w] = u /\ wpc[w] = "get"


\* worker w ends the parse of a loose object whose bytes do not inflate
InflateFails(w) ==
    /\ wpc[w] = "inflate"
    /\ w \in DOMAIN wpc'
    /\ wpc'[w] # "inflate"
    /\ ~zlib_decompress(contents[w]).ok

\* C19: the step in which a loose object fails to inflate removes that
\* object's file, puts nothing on the queue, and leaves every other file on
\* disk in place with the content it had.
C19_InflateFailure ==
    [][ \A w \in DOMAIN wpc :
            InflateFails(w) =>
                /\ local_path(file_url[w]) \notin DOMAIN files'
                /\ DOMAIN files' = DOMAIN files \ {local_path(file_url[w])}
                /\ \A f \in DOMAIN files' : files'[f] = files[f]
                /\ queue' = queue
                /\ discovered'[file_url[w]] = <<>> ]_vars

\* the corrupt object that the commit of target a names was downloaded and
\* deleted again, nothing was enqueued for it, and the commit object that
\* named it is still on disk
C19_Witness ==
    /\ world = 1
    /\ BaseA \o get_object_path(HCorrupt) \in DOMAIN requested
    /\ BaseA \o get_object_path(HCorrupt) \in DOMAIN discovered
    /\ discovered[BaseA \o get_object_path(HCorrupt)] = <<>>
    /\ local_path(BaseA \o get_object_path(HCorrupt)) \notin DOMAIN files
    /\ local_path(BaseA \o get_object_path(HCommit)) \in DOMAIN files
    /\ files[local_path(BaseA \o get_object_path(HCommit))]
           = ServerA[BaseA \o get_object_path(HCommit)].body


\* C20: whatever the downloaded files contain, every URL on the queue
\* starts with the base .git/ URL of one of the seeded targets.
C20_BeneathRoot ==
    \A i \in DOMAIN queue :
        \/ queue[i] = None
        \/ \E b \in Worlds[world].bases : startswith(queue[i], b)


\* the components of a relative path as the operating system walks them
\* from the working directory: ".." leaves the directory reached so far,
\* and stays when there is none left to leave
RECURSIVE Walk(_, _)
Walk(segs, acc) ==
    IF segs = <<>> THEN acc
    ELSE IF Head(segs) = ".." /\ acc # <<>> /\ acc[Len(acc)] # ".."
    THEN Walk(Tail(segs), SubSeq(acc, 1, Len(acc) - 1))
    ELSE Walk(Tail(segs), Append(acc, Head(segs)))

\* the file a path names, relative to the working directory
Located(p) == join("/", Walk(split(p, "/"), <<>>))

\* the host of a URL: what is between "://" and the next "/"
HostOf(u) == Head(split(split(u, "://")[2], "/"))

\* the path p is inside <output_dir>/<host>/ for the host of u
InsideFor(u, p) ==
    startswith(Located(p), OUTPUT_DIRECTORY \o "/" \o unquote(HostOf(u)) \o "/")

\* C21: the destination of every claimed URL is inside <output_dir>/<host>/
\* and every file a run has on disk is inside the output directory.
C21_InsideOutput ==
    /\ \A u \in DOMAIN claimed :
           local_path(u) # "" => InsideFor(u, local_path(u))
    /\ \A f \in DOMAIN files :
           startswith(Located(f), OUTPUT_DIRECTORY \o "/")

====
